---- MODULE Spec2Model ----
(***************************************************************************)
(* Model of the subscription URL redirect server (redirect-server/main.go   *)
(* and its configuration / lookup helpers).                                 *)
(*                                                                          *)
(* Go strings are modelled as sequences of one-character strings, so that   *)
(* prefix tests, slash counting and slicing are computed as the code        *)
(* computes them.                                                           *)
(***************************************************************************)
EXTENDS Integers, Sequences, FiniteSets, Bags, TLC

VARIABLES
    pc,            \* position of the main goroutine in main()
    srv,           \* position of the server goroutine started at main.go:71
    exitCode,      \* -1 while the process runs, else the process exit status
    fatalAt,       \* which log.Fatalf ended the process ("" if none)
    cfgFile,       \* the configuration file as read by LoadServerConfig
    serverCfg,     \* package-level serverCfg (NilConfig until loaded)
    mappingData,   \* main's local mappingData (NilMapping until loaded)
    pathLookup,    \* package-level pathLookup (nil map until built)
    iterOrder,     \* order in which range visited mappingData.Mappings
    buildCount,    \* number of calls of BuildPathLookup
    startupLog,    \* startup steps completed, in completion order
    listener,      \* "none", "bound" or "closed"
    inShutdown,    \* http.Server's inShutdown flag
    shutdownErr,   \* result of server.Shutdown: "" (not returned), "nil", "deadline"
    elapsed,       \* seconds Shutdown had waited when it returned
    conns,         \* bag of the connections open on the HTTP server
    call           \* last direct application of a helper function

vars == <<pc, srv, exitCode, fatalAt, cfgFile, serverCfg, mappingData,
          pathLookup, iterOrder, buildCount, startupLog, listener,
          inShutdown, shutdownErr, elapsed, conns, call>>

sysVars == <<pc, srv, exitCode, fatalAt, cfgFile, serverCfg, mappingData,
             pathLookup, iterOrder, buildCount, startupLog, listener,
             inShutdown, shutdownErr, elapsed, conns>>

----------------------------------------------------------------------------
(* Bounds of the model *)

MaxLen == 3        \* longest generated tail of an old URL
MaxUrlLen == 2     \* longest generated tail of a new URL / redirect domain
MaxRecords == 2    \* most records in the mappings of a snapshot
MaxConns == 2      \* most connections in flight at once

----------------------------------------------------------------------------
(* String literals *)

Empty == << >>
Slash == <<"/">>
HTTP == <<"h","t","t","p",":","/","/">>
HTTPS == <<"h","t","t","p","s",":","/","/">>
SchemeSep == <<":","/","/">>
SchemeHttp == <<"h","t","t","p">>
SchemeHttps == <<"h","t","t","p","s">>
OldHost == <<"o","l","d",".","e","x","a","m","p","l","e",".","c","o","m">>
NewHost == <<"n","e","w",".","e","x","a","m","p","l","e",".","c","o","m">>
PanelHost == <<"p","a","n","e","l",".","e","x","a","m","p","l","e",".","c","o","m">>
SubUserKey == <<"/","s","u","b","/","u","s","e","r","/","k","e","y">>
PathX == <<"/","x">>
SubA == <<"/","s","u","b","/","a">>
SubASlash == <<"/","s","u","b","/","a","/">>
SubB == <<"/","s","u","b","/","b">>
SubN1 == <<"/","s","u","b","/","n","1">>
SubN2 == <<"/","s","u","b","/","n","2">>
SubN3 == <<"/","s","u","b","/","n","3">>
XFPHttps == SchemeHttps
GoodPEM == <<"g","o","o","d">>
BadPEM == <<"b","a","d">>

SeqsUpTo(A, n) == UNION {[1..k -> A] : k \in 0..n}

----------------------------------------------------------------------------
(* strings helpers used by config.go *)

HasPrefix(s, prefix) ==
    /\ Len(s) >= Len(prefix)
    /\ SubSeq(s, 1, Len(prefix)) = prefix

HasSuffix(s, suffix) ==
    /\ Len(s) >= Len(suffix)
    /\ SubSeq(s, Len(s) - Len(suffix) + 1, Len(s)) = suffix

TrimSuffix(s, suffix) ==
    IF HasSuffix(s, suffix) THEN SubSeq(s, 1, Len(s) - Len(suffix)) ELSE s

----------------------------------------------------------------------------
(* extractPath *)

\* The range loop of extractPath: index of the slash that makes slashCount
\* reach 3, scanning from position i; 0 when the loop runs off the end.
RECURSIVE ThirdSlashFrom(_, _, _)
ThirdSlashFrom(url, i, slashCount) ==
    IF i > Len(url) THEN 0
    ELSE IF url[i] = "/"
         THEN IF slashCount + 1 = 3 THEN i
              ELSE ThirdSlashFrom(url, i + 1, slashCount + 1)
         ELSE ThirdSlashFrom(url, i + 1, slashCount)

\* Variant of extractPath that never strips scheme and host.
extractPath_IgnoreScheme(url) == url

extractPath(url) ==
    IF HasPrefix(url, HTTP) \/ HasPrefix(url, HTTPS)
    THEN LET i == ThirdSlashFrom(url, 1, 0)
         IN  IF i = 0 THEN Slash ELSE SubSeq(url, i, Len(url))
    ELSE url

----------------------------------------------------------------------------
(* GetRedirectURL *)

\* Variant of GetRedirectURL that tests the redirect domain first.
GetRedirectURL_DomainFirst(newURL, redirectDomain, requestScheme, requestHost) ==
    IF redirectDomain # Empty
    THEN LET d == IF ~HasPrefix(redirectDomain, HTTP) /\ ~HasPrefix(redirectDomain, HTTPS)
                  THEN HTTPS \o redirectDomain
                  ELSE redirectDomain
         IN  TrimSuffix(d, Slash) \o newURL
    ELSE IF HasPrefix(newURL, HTTP) \/ HasPrefix(newURL, HTTPS)
         THEN newURL
         ELSE requestScheme \o SchemeSep \o requestHost \o newURL

\* Variant of GetRedirectURL that keeps a trailing slash of the redirect domain.
GetRedirectURL_NoTrim(newURL, redirectDomain, requestScheme, requestHost) ==
    IF HasPrefix(newURL, HTTP) \/ HasPrefix(newURL, HTTPS)
    THEN newURL
    ELSE IF redirectDomain # Empty
         THEN LET d == IF ~HasPrefix(redirectDomain, HTTP) /\ ~HasPrefix(redirectDomain, HTTPS)
                       THEN HTTPS \o redirectDomain
                       ELSE redirectDomain
              IN  d \o newURL
         ELSE requestScheme \o SchemeSep \o requestHost \o newURL

GetRedirectURL(newURL, redirectDomain, requestScheme, requestHost) ==
    IF HasPrefix(newURL, HTTP) \/ HasPrefix(newURL, HTTPS)
    THEN newURL
    ELSE IF redirectDomain # Empty
         THEN LET d == IF ~HasPrefix(redirectDomain, HTTP) /\ ~HasPrefix(redirectDomain, HTTPS)
                       THEN HTTPS \o redirectDomain
                       ELSE redirectDomain
              IN  TrimSuffix(d, Slash) \o newURL
         ELSE requestScheme \o SchemeSep \o requestHost \o newURL

----------------------------------------------------------------------------
(* LoadServerConfig *)

NilConfig == [nil |-> TRUE]

MkConfig(port, domain, enabled, cert, key) ==
    [Host |-> Empty, Port |-> port, RedirectDomain |-> domain,
     SSL |-> [Enabled |-> enabled, Cert |-> cert, Key |-> key]]

\* A configuration file: whether os.ReadFile succeeds, whether json.Unmarshal
\* succeeds, and the ServerConfig it decodes to.
MkConfigFile(readable, decodable, config) ==
    [readable |-> readable, decodable |-> decodable, config |-> config]

\* Variant of LoadServerConfig without the check of the TLS material.
LoadServerConfig_NoSSLCheck(file) ==
    IF ~file.readable THEN [config |-> NilConfig, err |-> "read"]
    ELSE IF ~file.decodable THEN [config |-> NilConfig, err |-> "parse"]
    ELSE IF file.config.Port <= 0 \/ file.config.Port > 65535
         THEN [config |-> NilConfig, err |-> "port"]
    ELSE [config |-> file.config, err |-> "nil"]

LoadServerConfig(file) ==
    IF ~file.readable THEN [config |-> NilConfig, err |-> "read"]
    ELSE IF ~file.decodable THEN [config |-> NilConfig, err |-> "parse"]
    ELSE IF file.config.Port <= 0 \/ file.config.Port > 65535
         THEN [config |-> NilConfig, err |-> "port"]
    ELSE IF file.config.SSL.Enabled
            /\ (file.config.SSL.Cert = Empty \/ file.config.SSL.Key = Empty)
         THEN [config |-> NilConfig, err |-> "ssl"]
    ELSE [config |-> file.config, err |-> "nil"]

----------------------------------------------------------------------------
(* LoadMappingData and BuildPathLookup *)

NilMapping == [nil |-> TRUE]

MkMapping(old, new) == [OldSubscriptionURL |-> old, NewSubscriptionURL |-> new]

\* A mapping file: whether os.ReadFile succeeds, whether json.Unmarshal
\* succeeds, and the MappingData it decodes to (no validation is applied).
LoadMappingData(file) ==
    IF ~file.readable THEN [data |-> NilMapping, err |-> "read"]
    ELSE IF ~file.decodable THEN [data |-> NilMapping, err |-> "parse"]
    ELSE [data |-> file.data, err |-> "nil"]

\* The orders in which a range over a Go map with key set K may visit it.
IterationOrders(K) ==
    {o \in [1..Cardinality(K) -> K] : \A i, j \in 1..Cardinality(K) : o[i] = o[j] => i = j}

\* The body of the range loop, applied to the keys of order from position i.
RECURSIVE BuildLoop(_, _, _, _)
BuildLoop(mappings, order, i, lookup) ==
    IF i > Len(order) THEN lookup
    ELSE LET mapping == mappings[order[i]]
             oldPath == extractPath(mapping.OldSubscriptionURL)
         IN  BuildLoop(mappings, order, i + 1,
                       (oldPath :> mapping.NewSubscriptionURL) @@ lookup)

\* Variant of the loop in which an earlier record is not overwritten.
RECURSIVE BuildLoop_KeepFirst(_, _, _, _)
BuildLoop_KeepFirst(mappings, order, i, lookup) ==
    IF i > Len(order) THEN lookup
    ELSE LET mapping == mappings[order[i]]
             oldPath == extractPath(mapping.OldSubscriptionURL)
         IN  BuildLoop_KeepFirst(mappings, order, i + 1,
                       lookup @@ (oldPath :> mapping.NewSubscriptionURL))

BuildPathLookup_KeepFirst(data, order) ==
    BuildLoop_KeepFirst(data.Mappings, order, 1, << >>)

\* order is the order in which the range statement visits data.Mappings.
BuildPathLookup(data, order) == BuildLoop(data.Mappings, order, 1, << >>)

----------------------------------------------------------------------------
(* redirectHandler *)

StatusMovedPermanently == 301
StatusNotFound == 404

MkRequest(method, path, host, xfp, tls) ==
    [method |-> method, path |-> path, host |-> host, xfp |-> xfp, tls |-> tls]

\* The response written for request r, read from the package-level
\* lookup and cfg at the time the handler runs.
\* Variant of redirectHandler that redirects with 302 Found.
redirectHandler_Found(lookup, cfg, r) ==
    IF r.path \notin DOMAIN lookup
    THEN [status |-> StatusNotFound, location |-> Empty]
    ELSE LET newURL == lookup[r.path]
             scheme == IF r.tls \/ r.xfp = XFPHttps THEN SchemeHttps ELSE SchemeHttp
         IN  [status |-> 302,
              location |-> GetRedirectURL(newURL, cfg.RedirectDomain, scheme, r.host)]

\* Variant of redirectHandler that also tries the path without its trailing slash.
redirectHandler_SlashEquiv(lookup, cfg, r) ==
    LET p == IF r.path \notin DOMAIN lookup THEN TrimSuffix(r.path, Slash) ELSE r.path
    IN  IF p \notin DOMAIN lookup
        THEN [status |-> StatusNotFound, location |-> Empty]
        ELSE LET newURL == lookup[p]
                 scheme == IF r.tls \/ r.xfp = XFPHttps THEN SchemeHttps ELSE SchemeHttp
             IN  [status |-> StatusMovedPermanently,
                  location |-> GetRedirectURL(newURL, cfg.RedirectDomain, scheme, r.host)]

\* Variant of redirectHandler that infers the scheme from the header alone.
redirectHandler_HeaderOnly(lookup, cfg, r) ==
    IF r.path \notin DOMAIN lookup
    THEN [status |-> StatusNotFound, location |-> Empty]
    ELSE LET newURL == lookup[r.path]
             scheme == IF r.xfp = XFPHttps THEN SchemeHttps ELSE SchemeHttp
         IN  [status |-> StatusMovedPermanently,
              location |-> GetRedirectURL(newURL, cfg.RedirectDomain, scheme, r.host)]

redirectHandler(lookup, cfg, r) ==
    IF r.path \notin DOMAIN lookup
    THEN [status |-> StatusNotFound, location |-> Empty]
    ELSE LET newURL == lookup[r.path]
             scheme == IF r.tls \/ r.xfp = XFPHttps THEN SchemeHttps ELSE SchemeHttp
         IN  [status |-> StatusMovedPermanently,
              location |-> GetRedirectURL(newURL, cfg.RedirectDomain, scheme, r.host)]

----------------------------------------------------------------------------
(* Inputs of the process *)

MappingPool ==
    [k \in {"u1", "u2", "u3"} |->
        CASE k = "u1" -> MkMapping(SubA, SubN1)
          [] k = "u2" -> MkMapping(HTTPS \o OldHost \o SubA, HTTPS \o NewHost \o SubN2)
          [] k = "u3" -> MkMapping(SubASlash, SubN3)]

\* The unmatched records of the snapshot, kept for audit.
NotFoundPool == [k \in {"u9"} |-> MkMapping(SubB, Empty)]

Restrict(f, K) == [k \in K |-> f[k]]

MkMappingFile(readable, decodable, data) ==
    [readable |-> readable, decodable |-> decodable, data |-> data]

MappingFiles ==
    {MkMappingFile(FALSE, FALSE, NilMapping), MkMappingFile(TRUE, FALSE, NilMapping)}
    \cup {MkMappingFile(TRUE, TRUE,
                        [Mappings |-> Restrict(MappingPool, K),
                         NotFound |-> NotFoundPool]) :
            K \in {S \in SUBSET DOMAIN MappingPool : Cardinality(S) <= MaxRecords}}

SystemConfigFiles ==
    {MkConfigFile(FALSE, FALSE, NilConfig),
     MkConfigFile(TRUE, FALSE, NilConfig),
     MkConfigFile(TRUE, TRUE, MkConfig(0, Empty, FALSE, Empty, Empty)),
     MkConfigFile(TRUE, TRUE, MkConfig(8080, Empty, TRUE, GoodPEM, Empty)),
     MkConfigFile(TRUE, TRUE, MkConfig(8080, Empty, FALSE, Empty, Empty)),
     MkConfigFile(TRUE, TRUE, MkConfig(8080, PanelHost, TRUE, GoodPEM, GoodPEM)),
     MkConfigFile(TRUE, TRUE, MkConfig(8080, Empty, TRUE, BadPEM, GoodPEM))}

\* The requests a client may send over a connection (tls: whether the
\* connection was accepted by the TLS listener): every path with every
\* combination of Host and X-Forwarded-Proto; the method, which the handler
\* never reads, varies so that it occurs with every value of each header.
Requests(tls) ==
    {MkRequest(IF (h = Empty) = (x = Empty) THEN "GET" ELSE "POST", p, h, x, tls) :
        p \in {SubA, SubASlash, SubB}, h \in {OldHost, Empty}, x \in {Empty, XFPHttps}}

\* tls.X509KeyPair: succeeds on a well-formed certificate/key pair.
X509KeyPair(cert, key) == cert = GoodPEM /\ key = GoodPEM

----------------------------------------------------------------------------
(* The process: main goroutine, server goroutine, request handlers *)

\* main.go:107: the grace period of server.Shutdown, in seconds.
ShutdownTimeout == 10

Running == exitCode = -1

NoCall == [fn |-> "none"]

Init ==
    /\ pc = "start"
    /\ srv = "none"
    /\ exitCode = -1
    /\ fatalAt = ""
    /\ cfgFile = [nil |-> TRUE]
    /\ serverCfg = NilConfig
    /\ mappingData = NilMapping
    /\ pathLookup = << >>
    /\ iterOrder = << >>
    /\ buildCount = 0
    /\ startupLog = << >>
    /\ listener = "none"
    /\ inShutdown = FALSE
    /\ shutdownErr = ""
    /\ elapsed = 0
    /\ conns = EmptyBag
    /\ call = NoCall

\* os.Exit: every goroutine and every connection of the process is gone.
ProcessExit(code, reason) ==
    /\ exitCode' = code
    /\ fatalAt' = reason
    /\ pc' = "exited"
    /\ srv' = "exited"
    /\ conns' = EmptyBag

\* main.go:36-41
MainLoadServerConfig ==
    /\ Running /\ pc = "start"
    /\ \E file \in SystemConfigFiles :
         LET r == LoadServerConfig(file)
         IN  /\ cfgFile' = file
             /\ serverCfg' = r.config
             /\ IF r.err # "nil"
                THEN /\ ProcessExit(1, "config")
                     /\ UNCHANGED startupLog
                ELSE /\ pc' = "configLoaded"
                     /\ startupLog' = Append(startupLog, "LoadServerConfig")
                     /\ UNCHANGED <<exitCode, fatalAt, srv, conns>>
    /\ UNCHANGED <<mappingData, pathLookup, iterOrder, buildCount, listener,
                   inShutdown, shutdownErr, elapsed, call>>

\* main.go:44-49
MainLoadMappingData ==
    /\ Running /\ pc = "configLoaded"
    /\ \E file \in MappingFiles :
         LET r == LoadMappingData(file)
         IN  /\ mappingData' = r.data
             /\ IF r.err # "nil"
                THEN /\ ProcessExit(1, "mapping")
                     /\ UNCHANGED startupLog
                ELSE /\ pc' = "mappingLoaded"
                     /\ startupLog' = Append(startupLog, "LoadMappingData")
                     /\ UNCHANGED <<exitCode, fatalAt, srv, conns>>
    /\ UNCHANGED <<cfgFile, serverCfg, pathLookup, iterOrder, buildCount, listener,
                   inShutdown, shutdownErr, elapsed, call>>

\* main.go:52-53
MainBuildPathLookup ==
    /\ Running /\ pc = "mappingLoaded"
    /\ \E order \in IterationOrders(DOMAIN mappingData.Mappings) :
         /\ iterOrder' = order
         /\ pathLookup' = BuildPathLookup(mappingData, order)
    /\ buildCount' = buildCount + 1
    /\ startupLog' = Append(startupLog, "BuildPathLookup")
    /\ pc' = "indexBuilt"
    /\ UNCHANGED <<srv, exitCode, fatalAt, cfgFile, serverCfg, mappingData, listener,
                   inShutdown, shutdownErr, elapsed, conns, call>>

\* Variant of MainStartServer that may start the server before the mapping is loaded.
MainStartServer_BeforeLoad ==
    /\ Running /\ pc \in {"configLoaded", "indexBuilt"}
    /\ srv' = "spawned"
    /\ pc' = "waitSignal"
    /\ UNCHANGED <<exitCode, fatalAt, cfgFile, serverCfg, mappingData, pathLookup,
                   iterOrder, buildCount, startupLog, listener, inShutdown,
                   shutdownErr, elapsed, conns, call>>

\* main.go:56-101: register the handler, create the server, start the
\* server goroutine, register for signals.
MainStartServer ==
    /\ Running /\ pc = "indexBuilt"
    /\ srv' = "spawned"
    /\ pc' = "waitSignal"
    /\ UNCHANGED <<exitCode, fatalAt, cfgFile, serverCfg, mappingData, pathLookup,
                   iterOrder, buildCount, startupLog, listener, inShutdown,
                   shutdownErr, elapsed, conns, call>>

\* main.go:102-104: an interrupt or termination signal is delivered.
MainReceiveSignal ==
    /\ Running /\ pc = "waitSignal"
    /\ pc' = "gotSignal"
    /\ UNCHANGED <<srv, exitCode, fatalAt, cfgFile, serverCfg, mappingData, pathLookup,
                   iterOrder, buildCount, startupLog, listener, inShutdown,
                   shutdownErr, elapsed, conns, call>>

\* Shutdown closes the connections that are not serving a request.
CloseIdleConns(cs) ==
    [c \in {d \in DOMAIN cs : d.state = "active"} |-> cs[c]]

\* main.go:107-110: server.Shutdown is entered: the server is marked as
\* shutting down, its listener is closed, idle connections are closed. Serve,
\* blocked in Accept on that listener, returns ErrServerClosed to the server
\* goroutine (main.go:86/91), which ends without a fatal error.
MainShutdownBegin ==
    /\ Running /\ pc = "gotSignal"
    /\ inShutdown' = TRUE
    /\ listener' = IF listener = "bound" THEN "closed" ELSE listener
    /\ srv' = IF srv = "serving" THEN "returned" ELSE srv
    /\ conns' = CloseIdleConns(conns)
    /\ pc' = "shutdown"
    /\ UNCHANGED <<exitCode, fatalAt, cfgFile, serverCfg, mappingData, pathLookup,
                   iterOrder, buildCount, startupLog, shutdownErr, elapsed, call>>

HasActiveConn == \E c \in BagToSet(conns) : c.state = "active"

\* Whether Shutdown may return at this moment, and with what.
\* Variant of ShutdownOutcomes for a context without deadline.
ShutdownOutcomes_NoDeadline ==
    IF HasActiveConn THEN {}
    ELSE {[err |-> "nil", waited |-> t] : t \in 0..ShutdownTimeout}

ShutdownOutcomes ==
    IF HasActiveConn
    THEN {[err |-> "deadline", waited |-> ShutdownTimeout]}
    ELSE {[err |-> "nil", waited |-> t] : t \in 0..ShutdownTimeout}

\* main.go:110-112: server.Shutdown returns: nil once no connection is
\* serving a request, ctx.Err() when the context's deadline passed first.
MainShutdownReturn ==
    /\ Running /\ pc = "shutdown"
    /\ \E o \in ShutdownOutcomes :
         /\ shutdownErr' = o.err
         /\ elapsed' = o.waited
    /\ conns' = CloseIdleConns(conns)
    /\ pc' = "stopping"
    /\ UNCHANGED <<srv, exitCode, fatalAt, cfgFile, serverCfg, mappingData, pathLookup,
                   iterOrder, buildCount, startupLog, listener, inShutdown, call>>

\* main.go:114-115: main returns, the process exits with status 0.
MainReturn ==
    /\ Running /\ pc = "stopping"
    /\ ProcessExit(0, "")
    /\ UNCHANGED <<cfgFile, serverCfg, mappingData, pathLookup, iterOrder, buildCount,
                   startupLog, listener, inShutdown, shutdownErr, elapsed, call>>

\* main.go:72-84: the server goroutine parses the certificate/key pair.
SrvX509KeyPair ==
    /\ Running /\ srv = "spawned" /\ serverCfg.SSL.Enabled
    /\ IF X509KeyPair(serverCfg.SSL.Cert, serverCfg.SSL.Key)
       THEN /\ srv' = "tlsReady"
            /\ UNCHANGED <<pc, exitCode, fatalAt, conns>>
       ELSE ProcessExit(1, "certificate")
    /\ UNCHANGED <<cfgFile, serverCfg, mappingData, pathLookup, iterOrder, buildCount,
                   startupLog, listener, inShutdown, shutdownErr, elapsed, call>>

\* main.go:86-93: ListenAndServe / ListenAndServeTLS is entered: it returns
\* ErrServerClosed when Shutdown was called before, fails when the address
\* cannot be bound, and serves otherwise.
SrvListen ==
    /\ Running
    /\ \/ srv = "spawned" /\ ~serverCfg.SSL.Enabled
       \/ srv = "tlsReady"
    /\ IF inShutdown
       THEN /\ srv' = "returned"
            /\ UNCHANGED <<pc, exitCode, fatalAt, conns, listener>>
       ELSE \E bindOK \in BOOLEAN :
              IF bindOK
              THEN /\ listener' = "bound"
                   /\ srv' = "serving"
                   /\ UNCHANGED <<pc, exitCode, fatalAt, conns>>
              ELSE /\ ProcessExit(1, "listen")
                   /\ UNCHANGED listener
    /\ UNCHANGED <<cfgFile, serverCfg, mappingData, pathLookup, iterOrder, buildCount,
                   startupLog, inShutdown, shutdownErr, elapsed, call>>

Active(r) == [state |-> "active", req |-> r]

Responded(r, resp) == [state |-> "responded", req |-> r, resp |-> resp]

\* The listener accepts a connection and a request is read from it.
Accept ==
    /\ Running /\ srv = "serving" /\ listener = "bound"
    /\ BagCardinality(conns) < MaxConns
    /\ \E r \in Requests(serverCfg.SSL.Enabled) :
         conns' = conns (+) SetToBag({Active(r)})
    /\ UNCHANGED <<pc, srv, exitCode, fatalAt, cfgFile, serverCfg, mappingData,
                   pathLookup, iterOrder, buildCount, startupLog, listener,
                   inShutdown, shutdownErr, elapsed, call>>

\* Variant of Handle that records a missed path in the lookup.
Handle_CacheMiss ==
    /\ Running
    /\ \E c \in BagToSet(conns) :
         /\ c.state = "active"
         /\ conns' = (conns (-) SetToBag({c})) (+)
                SetToBag({Responded(c.req, redirectHandler(pathLookup, serverCfg, c.req))})
         /\ pathLookup' = IF c.req.path \in DOMAIN pathLookup
                          THEN pathLookup
                          ELSE (c.req.path :> Empty) @@ pathLookup
    /\ UNCHANGED <<pc, srv, exitCode, fatalAt, cfgFile, serverCfg, mappingData,
                   iterOrder, buildCount, startupLog, listener,
                   inShutdown, shutdownErr, elapsed, call>>

\* main.go:118-148: redirectHandler runs for the request of a connection
\* and its response is written.
Handle ==
    /\ Running
    /\ \E c \in BagToSet(conns) :
         /\ c.state = "active"
         /\ conns' = (conns (-) SetToBag({c})) (+)
                SetToBag({Responded(c.req, redirectHandler(pathLookup, serverCfg, c.req))})
    /\ UNCHANGED <<pc, srv, exitCode, fatalAt, cfgFile, serverCfg, mappingData,
                   pathLookup, iterOrder, buildCount, startupLog, listener,
                   inShutdown, shutdownErr, elapsed, call>>

\* The client closes a connection whose response was written.
CloseConn ==
    /\ Running
    /\ \E c \in BagToSet(conns) :
         /\ c.state = "responded"
         /\ conns' = conns (-) SetToBag({c})
    /\ UNCHANGED <<pc, srv, exitCode, fatalAt, cfgFile, serverCfg, mappingData,
                   pathLookup, iterOrder, buildCount, startupLog, listener,
                   inShutdown, shutdownErr, elapsed, call>>

Next ==
    \/ MainLoadServerConfig
    \/ MainLoadMappingData
    \/ MainBuildPathLookup
    \/ MainStartServer
    \/ MainReceiveSignal
    \/ MainShutdownBegin
    \/ MainShutdownReturn
    \/ MainReturn
    \/ SrvX509KeyPair
    \/ SrvListen
    \/ Accept
    \/ Handle
    \/ CloseConn

Spec == Init /\ [][Next]_vars

\* The Go scheduler runs the main goroutine whenever it can take a step, and
\* the runtime timer of context.WithTimeout fires.
FairSpec ==
    /\ Spec
    /\ WF_vars(MainShutdownBegin)
    /\ WF_vars(MainShutdownReturn)
    /\ WF_vars(MainReturn)

----------------------------------------------------------------------------
(* Direct application of the helper functions to bounded inputs *)

HttpOneSlash == <<"h","t","t","p",":","/">>
FTP == <<"f","t","p",":","/","/">>

SchemePrefixes == {Empty, HTTP, HTTPS, HttpOneSlash, FTP}

OldUrlInputs ==
    {p \o b : p \in SchemePrefixes, b \in SeqsUpTo({"/", "a"}, MaxLen)}
    \cup {SubUserKey, HTTPS \o OldHost \o SubUserKey, HTTPS \o OldHost,
          HTTP \o OldHost \o SubASlash}

NewUrlInputs ==
    {p \o b : p \in {Empty, HTTP, HTTPS, HttpOneSlash}, b \in SeqsUpTo({"/", "x"}, MaxUrlLen)}
    \cup {HTTPS \o NewHost \o PathX}

DomainInputs ==
    {p \o b : p \in {Empty, HTTP, HTTPS}, b \in SeqsUpTo({"/", "d"}, MaxUrlLen)}
    \cup {PanelHost, PanelHost \o Slash, HTTP \o PanelHost, HTTPS \o PanelHost \o Slash}

ConfigFiles ==
    {MkConfigFile(FALSE, FALSE, NilConfig), MkConfigFile(TRUE, FALSE, NilConfig)}
    \cup {MkConfigFile(TRUE, TRUE, MkConfig(port, d, e, c, k)) :
            port \in {-1, 0, 1, 8080, 65535, 65536}, d \in {Empty, PanelHost},
            e \in BOOLEAN, c \in {Empty, GoodPEM, BadPEM}, k \in {Empty, GoodPEM, BadPEM}}

ApplyExtractPath ==
    /\ call = NoCall
    /\ \E u \in OldUrlInputs :
         call' = [fn |-> "extractPath", url |-> u, ret |-> extractPath(u)]
    /\ UNCHANGED sysVars

ApplyGetRedirectURL ==
    /\ call = NoCall
    /\ \E newURL \in NewUrlInputs, d \in DomainInputs,
          scheme \in {SchemeHttp, SchemeHttps}, host \in {Empty, OldHost} :
         call' = [fn |-> "GetRedirectURL", newURL |-> newURL, redirectDomain |-> d,
                  requestScheme |-> scheme, requestHost |-> host,
                  ret |-> GetRedirectURL(newURL, d, scheme, host)]
    /\ UNCHANGED sysVars

ApplyLoadServerConfig ==
    /\ call = NoCall
    /\ \E file \in ConfigFiles :
         call' = [fn |-> "LoadServerConfig", file |-> file, ret |-> LoadServerConfig(file)]
    /\ UNCHANGED sysVars

XFPUpper == <<"H","T","T","P","S">>

\* Values of the X-Forwarded-Proto header: absent, "https", "http", "HTTPS".
XFPInputs == {Empty, XFPHttps, SchemeHttp, XFPUpper}

\* Indexes holding one key, for a relative and for an absolute new URL.
LookupInputs == {SubA :> u : u \in {PathX, SubN1, HTTPS \o NewHost \o PathX}}

ApplyRedirectHandler ==
    /\ call = NoCall
    /\ \E lookup \in LookupInputs, d \in {Empty, PanelHost},
          m \in {"GET", "POST"}, p \in {SubA, SubASlash}, h \in {Empty, OldHost},
          x \in XFPInputs, tls \in BOOLEAN :
         LET cfg == MkConfig(8080, d, tls, GoodPEM, GoodPEM)
             r == MkRequest(m, p, h, x, tls)
         IN  call' = [fn |-> "redirectHandler", lookup |-> lookup, cfg |-> cfg, r |-> r,
                      ret |-> redirectHandler(lookup, cfg, r)]
    /\ UNCHANGED sysVars

BareA == <<"a">>

\* Old subscription URLs of decoded records: empty, bare without a leading
\* slash, a path, with a scheme and a path, with a scheme and no path.
BuildOldInputs == {Empty, BareA, SubA, HTTPS \o OldHost \o SubA, HTTPS \o OldHost}

\* Decoded snapshots: json.Unmarshal accepts any string as old_subscription_url.
SnapshotInputs ==
    UNION {{[Mappings |-> [k \in K |-> MkMapping(old[k], PathX)], NotFound |-> NotFoundPool] :
              old \in [K -> BuildOldInputs]} :
           K \in {S \in SUBSET {"u1", "u2", "u3"} : Cardinality(S) <= MaxRecords}}

ApplyBuildPathLookup ==
    /\ call = NoCall
    /\ \E data \in SnapshotInputs :
         \E order \in IterationOrders(DOMAIN data.Mappings) :
           call' = [fn |-> "BuildPathLookup", data |-> data, order |-> order,
                    ret |-> BuildPathLookup(data, order)]
    /\ UNCHANGED sysVars

NextFn ==
    \/ ApplyExtractPath
    \/ ApplyGetRedirectURL
    \/ ApplyLoadServerConfig
    \/ ApplyRedirectHandler
    \/ ApplyBuildPathLookup

SpecFn == Init /\ [][NextFn]_vars

----------------------------------------------------------------------------
(* Properties *)

\* Prefix test written out position by position.
StartsWith(s, p) == Len(s) >= Len(p) /\ \A i \in 1..Len(p) : s[i] = p[i]

HasScheme(s) == StartsWith(s, HTTP) \/ StartsWith(s, HTTPS)

InferredScheme(r) ==
    IF r.tls \/ r.xfp = SchemeHttps THEN SchemeHttps ELSE SchemeHttp

RespondedConns == {c \in BagToSet(conns) : c.state = "responded"}

NormalizedOld(k) == extractPath(mappingData.Mappings[k].OldSubscriptionURL)

\* C1: every record whose normalized old path is shared by no other record is
\* answered, on a request for exactly that path, with status 301 and a
\* Location equal to GetRedirectURL(record's new URL, configured redirect
\* domain, inferred request scheme, request Host), whatever the headers and host.
C1_HitRedirects ==
    \A c \in RespondedConns :
      \A k \in DOMAIN mappingData.Mappings :
        (/\ \A k2 \in DOMAIN mappingData.Mappings \ {k} : NormalizedOld(k2) # NormalizedOld(k)
         /\ c.req.path = NormalizedOld(k))
        => /\ c.resp.status = 301
           /\ c.resp.location =
                GetRedirectURL(mappingData.Mappings[k].NewSubscriptionURL,
                               serverCfg.RedirectDomain, InferredScheme(c.req), c.req.host)

C1_Witness ==
    \E c \in RespondedConns :
      /\ c.req.path = SubA /\ c.req.host = Empty /\ c.req.xfp = XFPHttps
      /\ c.req.method = "POST"
      /\ DOMAIN mappingData.Mappings = {"u1", "u3"}
      /\ c.resp.status = 301
      /\ c.resp.location = SchemeHttps \o SchemeSep \o SubN1

\* C2: a request whose path is not a key of the index (exact comparison: a
\* path differing from a key only by a trailing slash is absent) is answered
\* 404 and never 301, whatever its method, headers, Host or TLS state.
C2_MissNotFound ==
    \A c \in RespondedConns :
      c.req.path \notin DOMAIN pathLookup
        => c.resp.status = 404 /\ c.resp.status # 301

C2_Witness ==
    \E c \in RespondedConns :
      /\ c.req.path = SubASlash
      /\ SubA \in DOMAIN pathLookup /\ SubASlash \notin DOMAIN pathLookup
      /\ c.req.method = "POST" /\ c.req.tls /\ c.req.xfp = XFPHttps
      /\ c.resp.status = 404

StartupOrder == <<"LoadServerConfig", "LoadMappingData", "BuildPathLookup">>

ConfigFileRejected(f) ==
    \/ ~f.readable
    \/ ~f.decodable
    \/ f.config.Port < 1
    \/ f.config.Port > 65535
    \/ (f.config.SSL.Enabled /\ (Len(f.config.SSL.Cert) = 0 \/ Len(f.config.SSL.Key) = 0))

\* C3: the listener is bound and requests are handled only after
\* LoadServerConfig, LoadMappingData and BuildPathLookup completed
\* successfully in that order; when config loading fails (in particular
\* ssl.enabled with an empty key) or mapping loading fails, the process
\* terminates without building the index or binding a listener.
C3_OrderedStartup ==
    /\ (listener # "none" \/ srv \in {"spawned", "tlsReady", "serving", "returned"}
          \/ conns # EmptyBag)
         => startupLog = StartupOrder /\ buildCount = 1
    /\ fatalAt \in {"config", "mapping"}
         => exitCode = 1 /\ buildCount = 0 /\ listener = "none" /\ srv \in {"none", "exited"}
    /\ (pc # "start" /\ ConfigFileRejected(cfgFile))
         => fatalAt = "config" /\ exitCode = 1
    /\ (pc \notin {"start", "configLoaded"} /\ fatalAt # "config" /\ mappingData = NilMapping)
         => fatalAt = "mapping"

C3_Witness ==
    /\ pc = "exited" /\ exitCode = 1 /\ fatalAt = "config"
    /\ cfgFile.readable /\ cfgFile.decodable
    /\ cfgFile.config.SSL.Enabled /\ cfgFile.config.SSL.Key = Empty
    /\ buildCount = 0 /\ listener = "none"

\* C4 (as claimed): under every interleaving of the main goroutine with the
\* server goroutine, exit status 0 is reached only after the shutdown of a
\* server that did start, and a malformed certificate/key pair always gives
\* a non-zero exit status.
C4_ExitStatus ==
    /\ exitCode = 0 => listener # "none"
    /\ (exitCode # -1 /\ serverCfg # NilConfig /\ mappingData # NilMapping
          /\ serverCfg.SSL.Enabled
          /\ ~X509KeyPair(serverCfg.SSL.Cert, serverCfg.SSL.Key))
         => exitCode # 0

\* C5: once BuildPathLookup has returned, the index and the loaded
\* configuration are never modified, through any interleaving of requests and
\* through shutdown, and the index is built exactly once.
C5_IndexImmutable ==
    /\ [][buildCount >= 1 =>
            /\ pathLookup' = pathLookup
            /\ serverCfg' = serverCfg
            /\ buildCount' = buildCount]_vars
    /\ [](buildCount <= 1)

C5_Witness ==
    /\ pc = "shutdown" /\ buildCount = 1
    /\ \E c \in RespondedConns : c.resp.status = 404
    /\ \E c \in BagToSet(conns) : c.state = "active" /\ c.req.path \in DOMAIN pathLookup

\* C6: after a signal is received while serving, no new connection is
\* accepted once Shutdown has been entered, Shutdown waits at most the grace
\* period of 10 seconds, and the process eventually exits in every case; a
\* shutdown that hit the deadline still ends in process exit.
C6_BoundedShutdown ==
    /\ (pc = "gotSignal" /\ listener = "bound") ~> (exitCode # -1)
    /\ (shutdownErr = "deadline") ~> (exitCode = 0)
    /\ [][inShutdown => BagCardinality(conns') <= BagCardinality(conns)]_vars
    /\ [](shutdownErr # "" => elapsed <= 10)

C6_Witness ==
    /\ exitCode = 0 /\ shutdownErr = "deadline" /\ elapsed = 10
    /\ listener = "closed"

\* C7: LoadServerConfig returns an error and no configuration exactly when
\* the file cannot be read or decoded, the port is outside 1..65535, or
\* ssl.enabled is true with an empty cert or key; otherwise it returns the
\* decoded configuration unchanged.
C7_LoadServerConfig ==
    call.fn = "LoadServerConfig" =>
      /\ (call.ret.err # "nil") <=> ConfigFileRejected(call.file)
      /\ ConfigFileRejected(call.file) => call.ret.config = NilConfig
      /\ ~ConfigFileRejected(call.file) => call.ret.config = call.file.config

C7_Witness ==
    /\ call.fn = "LoadServerConfig"
    /\ call.file.readable /\ call.file.decodable
    /\ ~call.file.config.SSL.Enabled /\ call.file.config.SSL.Cert = Empty
    /\ call.file.config.Port = 65535
    /\ call.ret.err = "nil" /\ call.ret.config = call.file.config

\* Positions of u holding the third "/" of u.
ThirdSlashPositions(u) ==
    {i \in 1..Len(u) : u[i] = "/" /\ Cardinality({j \in 1..(i - 1) : u[j] = "/"}) = 2}

\* C8: extractPath(u) is the suffix of u from its third "/" when u starts with
\* http:// or https:// ("/" when there is no third "/"), and u unchanged
\* otherwise; the three examples of the specification hold and extractPath is
\* idempotent on bare paths.
C8_ExtractPath ==
    call.fn = "extractPath" =>
      /\ IF HasScheme(call.url)
         THEN IF ThirdSlashPositions(call.url) = {}
              THEN call.ret = <<"/">>
              ELSE \E i \in ThirdSlashPositions(call.url) :
                     call.ret = [j \in 1..(Len(call.url) - i + 1) |-> call.url[i + j - 1]]
         ELSE call.ret = call.url
      /\ call.url = SubUserKey => call.ret = SubUserKey
      /\ call.url = HTTPS \o OldHost \o SubUserKey => call.ret = SubUserKey
      /\ call.url = HTTPS \o OldHost => call.ret = <<"/">>
      /\ ~HasScheme(call.url) => extractPath(call.ret) = call.ret

C8_Witness ==
    /\ call.fn = "extractPath"
    /\ call.url = HTTPS \o OldHost \o SubUserKey
    /\ call.ret = SubUserKey

\* Largest position of iterOrder whose record normalizes to path p.
LastProcessed(p) ==
    CHOOSE i \in 1..Len(iterOrder) :
      /\ NormalizedOld(iterOrder[i]) = p
      /\ \A j \in (i + 1)..Len(iterOrder) : NormalizedOld(iterOrder[j]) # p

\* C9: the built index has exactly one key per distinct normalized old path
\* of the snapshot's mappings; the value of a key is the new URL of the record
\* with that normalized path that was processed last; records of the
\* not_found set contribute no key.
C9_LastWriteWins ==
    buildCount >= 1 =>
      /\ DOMAIN pathLookup = {NormalizedOld(k) : k \in DOMAIN mappingData.Mappings}
      /\ \A p \in DOMAIN pathLookup :
           pathLookup[p] = mappingData.Mappings[iterOrder[LastProcessed(p)]].NewSubscriptionURL
      /\ \A k \in DOMAIN mappingData.NotFound :
           LET q == extractPath(mappingData.NotFound[k].OldSubscriptionURL)
           IN  q \notin {NormalizedOld(m) : m \in DOMAIN mappingData.Mappings}
                 => q \notin DOMAIN pathLookup

C9_Witness ==
    /\ buildCount = 1
    /\ DOMAIN mappingData.Mappings = {"u1", "u2"}
    /\ iterOrder = <<"u2", "u1">>
    /\ DOMAIN pathLookup = {SubA}
    /\ pathLookup[SubA] = SubN1

\* C10: GetRedirectURL returns the stored new URL unchanged whenever it starts
\* with http:// or https://, for every redirect domain, request scheme and
\* request host.
C10_AbsoluteVerbatim ==
    (call.fn = "GetRedirectURL" /\ HasScheme(call.newURL)) => call.ret = call.newURL

C10_Witness ==
    /\ call.fn = "GetRedirectURL"
    /\ call.newURL = HTTPS \o NewHost \o PathX
    /\ call.redirectDomain = PanelHost
    /\ call.requestHost = OldHost
    /\ call.ret = HTTPS \o NewHost \o PathX

\* The redirect domain with "https://" put in front when it has neither scheme.
DomainWithScheme(d) == IF HasScheme(d) THEN d ELSE HTTPS \o d

\* s without its last character when that character is "/".
WithoutTrailingSlash(s) ==
    IF Len(s) >= 1 /\ s[Len(s)] = "/" THEN [i \in 1..(Len(s) - 1) |-> s[i]] ELSE s

\* C11: when the new URL has no http:// or https:// scheme and the redirect
\* domain is non-empty, GetRedirectURL returns the domain, given the scheme
\* https:// if it has neither scheme and with a trailing slash stripped,
\* followed by the new URL, whatever the request scheme and host; "/x" with
\* domain "panel.example.com" gives "https://panel.example.com/x".
C11_DomainPrefix ==
    (call.fn = "GetRedirectURL" /\ ~HasScheme(call.newURL) /\ Len(call.redirectDomain) > 0)
      => /\ call.ret = WithoutTrailingSlash(DomainWithScheme(call.redirectDomain)) \o call.newURL
         /\ (call.newURL = PathX /\ call.redirectDomain = PanelHost)
              => call.ret = HTTPS \o PanelHost \o PathX

C11_Witness ==
    /\ call.fn = "GetRedirectURL"
    /\ call.newURL = PathX
    /\ call.redirectDomain = PanelHost \o Slash
    /\ call.requestScheme = SchemeHttp /\ call.requestHost = OldHost
    /\ call.ret = HTTPS \o PanelHost \o PathX

\* C12: on a hit whose new URL has no scheme, with an empty redirect domain,
\* the redirect target is scheme + "://" + request Host + new URL, the scheme
\* being "https" when the request arrived over TLS or carries
\* X-Forwarded-Proto: https and "http" in every other case; "/x" with scheme
\* https and host "old.example.com" gives "https://old.example.com/x".
C12_RequestSchemeAndHost ==
    (/\ call.fn = "redirectHandler"
     /\ call.r.path \in DOMAIN call.lookup
     /\ Len(call.cfg.RedirectDomain) = 0)
      => LET newURL == call.lookup[call.r.path]
             scheme == IF call.r.tls THEN <<"h","t","t","p","s">>
                       ELSE IF call.r.xfp = <<"h","t","t","p","s">>
                            THEN <<"h","t","t","p","s">>
                            ELSE <<"h","t","t","p">>
         IN  ~HasScheme(newURL) =>
               /\ call.ret.status = 301
               /\ call.ret.location = scheme \o <<":","/","/">> \o call.r.host \o newURL
               /\ (newURL = PathX /\ scheme = SchemeHttps /\ call.r.host = OldHost)
                    => call.ret.location = HTTPS \o OldHost \o PathX

C12_Witness ==
    /\ call.fn = "redirectHandler"
    /\ call.r.path = SubA /\ call.lookup[SubA] = PathX
    /\ call.cfg.RedirectDomain = Empty
    /\ ~call.r.tls /\ call.r.xfp = XFPUpper /\ call.r.host = OldHost
    /\ call.ret.status = 301
    /\ call.ret.location = HTTP \o OldHost \o PathX

\* C13 (as claimed): every key of the index built by BuildPathLookup begins
\* with "/", for every snapshot that decodes, including records whose old
\* subscription URL is empty, bare without a leading slash, or has a scheme.
C13_KeysBeginWithSlash ==
    call.fn = "BuildPathLookup" =>
      \A p \in DOMAIN call.ret : Len(p) >= 1 /\ p[1] = "/"

====
